---- MODULE Spec2Model ----
(***************************************************************************)
(* nstree: the process tree of src/main.c, from the flat record array      *)
(* g_processes through build_process_tree, mark_keep_processes and         *)
(* print_tree.                                                             *)
(*                                                                         *)
(* A namespace symlink target "net:[4026531840]" is the pair               *)
(* <<"net", n>>; a NULL const char * is the empty tuple; the pair          *)
(* (parentNs, parentNsCount) is a record [null, ns]; a ProcInfo * is the   *)
(* index of the record in g_processes.                                     *)
(***************************************************************************)
EXTENDS Integers, Sequences, FiniteSets, TLC

VARIABLES g_processes, g_filters, pc, out

vars == <<g_processes, g_filters, pc, out>>

-----------------------------------------------------------------------------
(* Bounds of the checked inputs. *)

MaxProcs == 3
MaxPid == 3
MaxId == 2
MaxNs == 2
MaxFilters == 2

Types == {"net", "pid"}

-----------------------------------------------------------------------------
(* Values. *)

NULL == <<>>

NullNs == [null |-> TRUE, ns |-> <<>>]

NsPtr(list) == [null |-> FALSE, ns |-> list]

SeqsUpTo(S, n) == UNION {[1..k -> S] : k \in 0..n}

Min(S) == CHOOSE x \in S : \A y \in S : x <= y

Max(S) == CHOOSE x \in S : \A y \in S : x >= y

(* The type is the link target up to its first ':', the inode the whole    *)
(* target.                                                                 *)
parse_namespace_symlink(linkTarget) ==
    [type |-> linkTarget[1], inode |-> linkTarget]

(* read_proc_info: a fresh record has no children and keep = 0. *)
ProcInfo(pid, ppid, isThread, ns, readable) ==
    [pid |-> pid, ppid |-> ppid, isThread |-> isThread,
     namespaces |-> ns, nsReadable |-> readable,
     children |-> <<>>, keep |-> FALSE]

-----------------------------------------------------------------------------
(* build_process_tree *)

(* Mutant: the children are attached last record first. *)
ChildrenOfReversed(ps, i) ==
    LET hits == SelectSeq([j \in 1..Len(ps) |-> j],
                          LAMBDA j : ps[j].ppid = ps[i].pid)
    IN  [k \in 1..Len(hits) |-> hits[Len(hits) + 1 - k]]

ChildrenOf(ps, i) ==
    SelectSeq([j \in 1..Len(ps) |-> j], LAMBDA j : ps[j].ppid = ps[i].pid)

build_process_tree(ps) ==
    [i \in 1..Len(ps) |-> [ps[i] EXCEPT !.children = ChildrenOf(ps, i)]]

-----------------------------------------------------------------------------
(* Mutant: the inode of the first entry, whatever its type. *)
find_namespace_inode_untyped(list, type) ==
    IF Len(list) = 0 THEN NULL ELSE list[1].inode

(* find_namespace_inode: the inode of the first entry of the type. *)

find_namespace_inode(list, type) ==
    LET hits == {i \in 1..Len(list) : list[i].type = type}
    IN  IF hits = {} THEN NULL ELSE list[Min(hits)].inode

(* Mutant: the wildcard round takes a namespace the parent lacks for no    *)
(* difference.                                                             *)
FilterDiffersWildcardStrict(filterType, proc, parentNs) ==
    IF filterType = "*"
    THEN \E i \in 1..Len(proc.namespaces) :
            \/ parentNs.null
            \/ LET parentInode ==
                       find_namespace_inode(parentNs.ns, proc.namespaces[i].type)
               IN  parentInode # NULL /\ parentInode # proc.namespaces[i].inode
    ELSE LET childInode == find_namespace_inode(proc.namespaces, filterType)
         IN  IF parentNs.null
             THEN childInode # NULL
             ELSE /\ childInode # NULL
                  /\ LET parentInode ==
                             find_namespace_inode(parentNs.ns, filterType)
                     IN  parentInode = NULL \/ parentInode # childInode

(* Mutant: without a parent a node is never relevant for a concrete type. *)
FilterDiffersRootNever(filterType, proc, parentNs) ==
    IF filterType = "*"
    THEN \E i \in 1..Len(proc.namespaces) :
            \/ parentNs.null
            \/ LET parentInode ==
                       find_namespace_inode(parentNs.ns, proc.namespaces[i].type)
               IN  parentInode = NULL \/ parentInode # proc.namespaces[i].inode
    ELSE LET childInode == find_namespace_inode(proc.namespaces, filterType)
         IN  /\ ~parentNs.null
             /\ childInode # NULL
             /\ LET parentInode ==
                        find_namespace_inode(parentNs.ns, filterType)
                IN  parentInode = NULL \/ parentInode # childInode

(* One round of the filter loop of has_requested_namespace_diff: TRUE when *)
(* the round returns 1, FALSE when it continues with the next filter.      *)
FilterDiffers(filterType, proc, parentNs) ==
    IF filterType = "*"
    THEN \E i \in 1..Len(proc.namespaces) :
            \/ parentNs.null
            \/ LET parentInode ==
                       find_namespace_inode(parentNs.ns, proc.namespaces[i].type)
               IN  parentInode = NULL \/ parentInode # proc.namespaces[i].inode
    ELSE LET childInode == find_namespace_inode(proc.namespaces, filterType)
         IN  IF parentNs.null
             THEN childInode # NULL
             ELSE /\ childInode # NULL
                  /\ LET parentInode ==
                             find_namespace_inode(parentNs.ns, filterType)
                     IN  parentInode = NULL \/ parentInode # childInode

has_requested_namespace_diff(filters, proc, parentNs) ==
    IF Len(filters) = 0
    THEN FALSE
    ELSE \E f \in 1..Len(filters) : FilterDiffers(filters[f], proc, parentNs)

-----------------------------------------------------------------------------
(* mark_keep_processes.  depth counts the active calls; a chain of more    *)
(* calls than there are records holds one record twice, so the recursion   *)
(* never returns and the stack overflows: ok = FALSE.                      *)

(* Mutant: no shortcut for an empty filter list. *)
OwnKeepNoShortcut(filters, proc, parentNs) ==
    has_requested_namespace_diff(filters, proc, parentNs)

OwnKeep(filters, proc, parentNs) ==
    IF Len(filters) = 0
    THEN TRUE
    ELSE has_requested_namespace_diff(filters, proc, parentNs)

(* Mutant: a kept child does not keep proc. *)
PropagateKeepDropped(ps, p, childKept) == ps

PropagateKeep(ps, p, childKept) ==
    IF childKept THEN [ps EXCEPT ![p].keep = TRUE] ELSE ps

(* Mutant: the child is marked against the set proc itself was given. *)
ChildParentNsInherited(ps, p, parentNs) == parentNs

(* The parent namespace set a child is marked against: proc's own. *)
ChildParentNs(ps, p, parentNs) == NsPtr(ps[p].namespaces)

RECURSIVE mark_keep_processes(_, _, _, _, _)
RECURSIVE MarkChildren(_, _, _, _, _, _)

mark_keep_processes(filters, ps, p, parentNs, depth) ==
    IF depth > Len(ps)
    THEN [ok |-> FALSE, ps |-> ps, ret |-> FALSE]
    ELSE MarkChildren(filters,
                      [ps EXCEPT ![p].keep = OwnKeep(filters, ps[p], parentNs)],
                      p, parentNs, 1, depth)

MarkChildren(filters, ps, p, parentNs, i, depth) ==
    IF i > Len(ps[p].children)
    THEN [ok |-> TRUE, ps |-> ps, ret |-> ps[p].keep]
    ELSE LET r == mark_keep_processes(filters, ps, ps[p].children[i],
                                      ChildParentNs(ps, p, parentNs),
                                      depth + 1)
         IN  IF ~r.ok
             THEN r
             ELSE MarkChildren(filters, PropagateKeep(r.ps, p, r.ret),
                               p, parentNs, i + 1, depth)

-----------------------------------------------------------------------------
(* print_tree.  A line of output is a record; prefix is the sequence of    *)
(* bytes printed before the glyph, glyph the branch glyph, diff the        *)
(* bracketed list (no bracket is printed when it is empty), proc the       *)
(* record the line is printed for.  print_tree visits only records         *)
(* mark_keep_processes has returned from, so its depth guard never fires.  *)

(* sizeof(newPrefix) *)
PrefixSize == 1024

(* "  ": two blanks. *)
Blanks == <<" ", " ">>

(* The UTF-8 bytes of the continuation bar U+2502, and a blank. *)
Bar == <<"E2", "94", "82", " ">>

PrefixSegment(isLast) == IF isLast THEN Blanks ELSE Bar

(* snprintf(newPrefix, sizeof(newPrefix), "%s%s", ...): what fits in the   *)
(* buffer before the terminating NUL.                                      *)
NewPrefix(prefix, isLast) ==
    LET s == prefix \o PrefixSegment(isLast)
    IN  IF Len(s) < PrefixSize THEN s ELSE SubSeq(s, 1, PrefixSize - 1)

(* Mutant: without a parent there is nothing to print. *)
DiffIndicesNoRoot(namespaces, parentNs) ==
    {i \in 1..Len(namespaces) :
        /\ ~parentNs.null
        /\ LET parentInode ==
                   find_namespace_inode(parentNs.ns, namespaces[i].type)
           IN  parentInode = NULL \/ parentInode # namespaces[i].inode}

DiffIndices(namespaces, parentNs) ==
    {i \in 1..Len(namespaces) :
        LET parentInode ==
                IF parentNs.null
                THEN NULL
                ELSE find_namespace_inode(parentNs.ns, namespaces[i].type)
        IN  parentInode = NULL \/ parentInode # namespaces[i].inode}

NamespaceDiff(namespaces, parentNs) ==
    LET idx == SelectSeq([i \in 1..Len(namespaces) |-> i],
                         LAMBDA i : i \in DiffIndices(namespaces, parentNs))
    IN  [k \in 1..Len(idx) |-> namespaces[idx[k]].inode]

Line(ps, p, prefix, isLast, parentNs) ==
    [prefix |-> prefix,
     glyph |-> IF isLast THEN "last" ELSE "mid",
     braces |-> ps[p].isThread,
     pid |-> ps[p].pid,
     unreadable |-> ~ps[p].nsReadable,
     diff |-> NamespaceDiff(ps[p].namespaces, parentNs),
     proc |-> p]

LastKeptIdx(ps, p) ==
    LET kept == {i \in 1..Len(ps[p].children) : ps[ps[p].children[i]].keep}
    IN  IF kept = {} THEN 0 ELSE Max(kept)

ChildPrinted(ps, c) == ps[c].keep

RECURSIVE print_tree(_, _, _, _, _, _)
RECURSIVE PrintChildren(_, _, _, _, _, _)

print_tree(ps, p, prefix, isLast, parentNs, depth) ==
    IF depth > Len(ps)
    THEN [ok |-> FALSE, lines |-> <<>>]
    ELSE IF ~ps[p].keep
    THEN [ok |-> TRUE, lines |-> <<>>]
    ELSE PrintChildren(ps, p, NewPrefix(prefix, isLast), 1, depth,
                       <<Line(ps, p, prefix, isLast, parentNs)>>)

PrintChildren(ps, p, newPrefix, i, depth, lines) ==
    IF i > Len(ps[p].children)
    THEN [ok |-> TRUE, lines |-> lines]
    ELSE IF ~ChildPrinted(ps, ps[p].children[i])
    THEN PrintChildren(ps, p, newPrefix, i + 1, depth, lines)
    ELSE LET r == print_tree(ps, ps[p].children[i], newPrefix,
                             i = LastKeptIdx(ps, p),
                             NsPtr(ps[p].namespaces), depth + 1)
         IN  IF ~r.ok
             THEN r
             ELSE PrintChildren(ps, p, newPrefix, i + 1, depth,
                                lines \o r.lines)

-----------------------------------------------------------------------------
(* main: the first record with pid 1 that is no thread is the root. *)

RootCandidates(ps) == {i \in 1..Len(ps) : ps[i].pid = 1 /\ ~ps[i].isThread}

HasRoot(ps) == RootCandidates(ps) # {}

Root(ps) == Min(RootCandidates(ps))

-----------------------------------------------------------------------------
(* The records gather_processes_and_threads leaves in g_processes.         *)

Ids == 1..MaxId

Entries == {parse_namespace_symlink(<<t, n>>) : t \in Types, n \in Ids}

FilterTypes == Types \cup {"*"}

FilterSeqs == SeqsUpTo(FilterTypes, MaxFilters)

UniquePids(ps) == \A i, j \in 1..Len(ps) : ps[i].pid = ps[j].pid => i = j

(* Any tree shape: any parent pid (none, unmatched, a cycle), any order of *)
(* the records, no threads (show_threads = 0), at most one namespace read  *)
(* per record, at most one --filter argument.                              *)
TreeRecords ==
    {ProcInfo(pid, ppid, FALSE, ns, TRUE) :
        pid \in 1..MaxPid, ppid \in 0..MaxPid, ns \in SeqsUpTo(Entries, 1)}

InitTree ==
    /\ g_processes \in {ps \in SeqsUpTo(TreeRecords, MaxProcs) : UniquePids(ps)}
    /\ g_filters \in SeqsUpTo(FilterTypes, 1)
    /\ pc = "gathered"
    /\ out = <<>>

(* pid 1 and one child (a process or a thread of pid 1), each with any     *)
(* namespace list, repeated types included, or with an unreadable ns       *)
(* directory, at most one --filter argument.                               *)
NsReads ==
    {[ns |-> l, readable |-> TRUE] : l \in SeqsUpTo(Entries, MaxNs)}
        \cup {[ns |-> <<>>, readable |-> FALSE]}

InitChain ==
    /\ \E a \in NsReads, b \in NsReads, t \in BOOLEAN :
          g_processes = <<ProcInfo(1, 0, FALSE, a.ns, a.readable),
                          ProcInfo(2, 1, t, b.ns, b.readable)>>
    /\ g_filters \in SeqsUpTo(FilterTypes, 1)
    /\ pc = "gathered"
    /\ out = <<>>

(* The three records of the documented example, any of them removed. *)
ScenarioEntry(t, id) == parse_namespace_symlink(<<t, id>>)

ScenarioRecords ==
    <<ProcInfo(1, 0, FALSE,
               <<ScenarioEntry("net", "A"), ScenarioEntry("mnt", "B")>>, TRUE),
      ProcInfo(2, 1, FALSE,
               <<ScenarioEntry("net", "A"), ScenarioEntry("mnt", "C")>>, TRUE),
      ProcInfo(3, 2, FALSE,
               <<ScenarioEntry("net", "D"), ScenarioEntry("mnt", "C")>>, TRUE)>>

SubSeq3(present) ==
    SelectSeq(ScenarioRecords, LAMBDA r : r.pid \in present)

InitScenario ==
    /\ \E present \in SUBSET {1, 2, 3} : g_processes = SubSeq3(present)
    /\ g_filters \in FilterSeqs
    /\ pc = "gathered"
    /\ out = <<>>

Init == InitTree \/ InitChain \/ InitScenario

-----------------------------------------------------------------------------
(* The steps of main. *)

BuildProcessTree ==
    /\ pc = "gathered"
    /\ g_processes' = build_process_tree(g_processes)
    /\ pc' = "built"
    /\ UNCHANGED <<g_filters, out>>

MarkKeepProcesses ==
    /\ pc = "built"
    /\ HasRoot(g_processes)
    /\ LET r == mark_keep_processes(g_filters, g_processes,
                                    Root(g_processes), NullNs, 1)
       IN  /\ g_processes' = r.ps
           /\ pc' = IF r.ok THEN "marked" ELSE "crashed"
    /\ UNCHANGED <<g_filters, out>>

PrintTree ==
    /\ pc = "marked"
    /\ LET r == print_tree(g_processes, Root(g_processes), <<>>, TRUE,
                           NullNs, 1)
       IN  /\ out' = r.lines
           /\ pc' = IF r.ok THEN "printed" ELSE "crashed"
    /\ UNCHANGED <<g_processes, g_filters>>

Cleanup ==
    /\ \/ pc = "printed"
       \/ pc = "built" /\ ~HasRoot(g_processes)
    /\ g_processes' = <<>>
    /\ pc' = "done"
    /\ UNCHANGED <<g_filters, out>>

Next == BuildProcessTree \/ MarkKeepProcesses \/ PrintTree \/ Cleanup

Spec == Init /\ [][Next]_vars

SpecNs == InitChain /\ [][Next]_vars

SpecScenario == InitScenario /\ [][Next]_vars

-----------------------------------------------------------------------------
(* Records as build_process_tree takes them: it asks nothing of pid and    *)
(* ppid, so a record may be its own parent, parent links may form a cycle, *)
(* and two records may have the same pid.                                  *)

MaxRecords == 4

AnyRecords ==
    {ProcInfo(pid, ppid, FALSE, <<parse_namespace_symlink(<<"net", 1>>)>>,
              TRUE) :
        pid \in 1..MaxPid, ppid \in 0..MaxPid}

InitAnyRecords ==
    /\ g_processes \in SeqsUpTo(AnyRecords, MaxRecords)
    /\ g_filters \in SeqsUpTo(FilterTypes, 1)
    /\ pc = "gathered"
    /\ out = <<>>

SpecAnyRecords == InitAnyRecords /\ [][Next]_vars

-----------------------------------------------------------------------------
(* print_tree followed one call at a time, for a tree too deep to unfold   *)
(* in one step: every call that gets past the keep test prints one line.   *)
(* With distinct pids a record is printed once, and the calls that still   *)
(* have a kept child to print are the line printed last and ancestors of   *)
(* it, so the call that goes on is the one whose line is the latest, and   *)
(* it goes on with its first kept child that has no line yet.              *)

NestedLen == 514

(* n processes of which pid 1 and every process of even pid have two       *)
(* children, the first of them with the next even pid: 1 has 2 and 3, 2    *)
(* has 4 and 5, 4 has 6 and 7, ...                                         *)
NestedRecords(n) ==
    [i \in 1..n |->
        ProcInfo(i,
                 IF i = 1 THEN 0
                 ELSE IF i <= 3 THEN 1
                 ELSE IF i % 2 = 0 THEN i - 2 ELSE i - 3,
                 FALSE, <<parse_namespace_symlink(<<"net", 1>>)>>, TRUE)]

(* Without --filter mark_keep_processes keeps every record it reaches,     *)
(* and it reaches every record of NestedRecords.                           *)
MarkedWithoutFilter(ps) == [i \in 1..Len(ps) |-> [ps[i] EXCEPT !.keep = TRUE]]

InitNested ==
    /\ g_processes = MarkedWithoutFilter(build_process_tree(NestedRecords(NestedLen)))
    /\ g_filters = <<>>
    /\ pc = "marked"
    /\ out = <<>>

(* The lines whose call has not yet printed all its kept children. *)
OpenCalls(ps, lines) ==
    LET printed == {lines[j].proc : j \in 1..Len(lines)}
    IN  {k \in 1..Len(lines) :
            \E i \in 1..Len(ps[lines[k].proc].children) :
                /\ ChildPrinted(ps, ps[lines[k].proc].children[i])
                /\ ps[lines[k].proc].children[i] \notin printed}

(* The line the next call prints. *)
NextLine(ps, lines) ==
    LET printed == {lines[j].proc : j \in 1..Len(lines)}
        k == Max(OpenCalls(ps, lines))
        p == lines[k].proc
        i == Min({m \in 1..Len(ps[p].children) :
                     /\ ChildPrinted(ps, ps[p].children[m])
                     /\ ps[p].children[m] \notin printed})
    IN  Line(ps, ps[p].children[i],
             NewPrefix(lines[k].prefix, lines[k].glyph = "last"),
             i = LastKeptIdx(ps, p), NsPtr(ps[p].namespaces))

(* main's call: print_tree(root, "", 1, NULL). *)
PrintTreeRoot ==
    /\ pc = "marked"
    /\ out' = IF g_processes[Root(g_processes)].keep
              THEN <<Line(g_processes, Root(g_processes), <<>>, TRUE, NullNs)>>
              ELSE <<>>
    /\ pc' = "printing"
    /\ UNCHANGED <<g_processes, g_filters>>

(* A recursive call that prints. *)
PrintTreeCall ==
    /\ pc = "printing"
    /\ OpenCalls(g_processes, out) # {}
    /\ out' = Append(out, NextLine(g_processes, out))
    /\ UNCHANGED <<g_processes, g_filters, pc>>

(* The root call returns to main. *)
PrintTreeReturn ==
    /\ pc = "printing"
    /\ OpenCalls(g_processes, out) = {}
    /\ pc' = "printed"
    /\ UNCHANGED <<g_processes, g_filters, out>>

NextNested == PrintTreeRoot \/ PrintTreeCall \/ PrintTreeReturn \/ Cleanup

SpecNested == InitNested /\ [][NextNested]_vars

RECURSIVE PrintedByCalls(_, _)

(* The lines in out when the root call returns. *)
PrintedByCalls(ps, lines) ==
    IF OpenCalls(ps, lines) = {}
    THEN lines
    ELSE PrintedByCalls(ps, Append(lines, NextLine(ps, lines)))

(* Call by call print_tree prints what PrintTree prints in one step (an    *)
(* invariant of Spec, SpecNs and SpecScenario).                            *)
CallsAgree ==
    pc = "marked" =>
        print_tree(g_processes, Root(g_processes), <<>>, TRUE, NullNs,
                   1).lines =
            IF g_processes[Root(g_processes)].keep
            THEN PrintedByCalls(g_processes,
                                <<Line(g_processes, Root(g_processes), <<>>,
                                       TRUE, NullNs)>>)
            ELSE <<>>

-----------------------------------------------------------------------------
(* Vocabulary of the properties, read off pid and ppid, not off children. *)

Kids(ps, n) == {j \in 1..Len(ps) : ps[j].ppid = ps[n].pid}

RECURSIVE ReachFrom(_, _)

ReachFrom(ps, S) ==
    LET T == S \cup UNION {Kids(ps, n) : n \in S}
    IN  IF T = S THEN S ELSE ReachFrom(ps, T)

(* The records of the tree rooted at pid 1. *)
Reach(ps) == IF HasRoot(ps) THEN ReachFrom(ps, {Root(ps)}) ELSE {}

Parents(ps, n) == {j \in 1..Len(ps) : ps[j].pid = ps[n].ppid}

(* The parent set a node is compared with: absent for the root, else the   *)
(* namespaces of the record whose pid is the node's ppid.                  *)
DirectParentNs(ps, n) ==
    IF n = Root(ps)
    THEN NullNs
    ELSE NsPtr(ps[CHOOSE j \in Parents(ps, n) : TRUE].namespaces)

OwnRelevance(filters, ps, n) ==
    has_requested_namespace_diff(filters, ps[n], DirectParentNs(ps, n))

Marked == pc \in {"marked", "printed"}

Kept(ps) == {i \in 1..Len(ps) : ps[i].keep}

PrintedProcs == {out[k].proc : k \in 1..Len(out)}

-----------------------------------------------------------------------------
(* C1: once mark_keep_processes has returned from the root with a          *)
(* non-empty filter set, every node N of the tree has                      *)
(* keep(N) = ownRelevance(N) \/ (some child of N has keep), ownRelevance   *)
(* being has_requested_namespace_diff against the namespaces of N's direct *)
(* parent (absent for the root).                                           *)
C1_KeepPropagation ==
    (Marked /\ Len(g_filters) > 0) =>
        \A n \in Reach(g_processes) :
            g_processes[n].keep <=>
                \/ OwnRelevance(g_filters, g_processes, n)
                \/ \E c \in Kids(g_processes, n) : g_processes[c].keep

(* A chain root -> a -> b in which a is irrelevant and kept for b, and b   *)
(* is relevant against a though its namespaces equal the root's.           *)
C1_Witness ==
    /\ Marked /\ Len(g_filters) > 0
    /\ \E a, b \in Reach(g_processes) :
          /\ a \in Kids(g_processes, Root(g_processes))
          /\ b \in Kids(g_processes, a)
          /\ ~OwnRelevance(g_filters, g_processes, a)
          /\ OwnRelevance(g_filters, g_processes, b)
          /\ ~has_requested_namespace_diff(
                 g_filters, g_processes[b],
                 NsPtr(g_processes[Root(g_processes)].namespaces))
          /\ g_processes[a].keep

-----------------------------------------------------------------------------
(* C2: print_tree emits a line for exactly the records with keep set, and  *)
(* these form a connected subtree: the parent of a kept record other than  *)
(* the root is kept, and the root is kept whenever a node of its tree is   *)
(* relevant on its own.                                                    *)
C2_TreeConnectivity ==
    (pc = "printed") =>
        /\ PrintedProcs = Kept(g_processes)
        /\ \A n \in Kept(g_processes) :
              n # Root(g_processes) =>
                  /\ Parents(g_processes, n) # {}
                  /\ \A j \in Parents(g_processes, n) : g_processes[j].keep
        /\ (\E n \in Reach(g_processes) :
               OwnRelevance(g_filters, g_processes, n))
              => g_processes[Root(g_processes)].keep

(* A filtered run in which a node is pruned and a node that is irrelevant  *)
(* itself is printed on the way to a relevant one.                         *)
C2_Witness ==
    /\ pc = "printed" /\ Len(g_filters) > 0
    /\ \E n \in Reach(g_processes) : ~g_processes[n].keep
    /\ \E n \in PrintedProcs, c \in PrintedProcs :
          /\ c \in Kids(g_processes, n)
          /\ ~OwnRelevance(g_filters, g_processes, n)
          /\ OwnRelevance(g_filters, g_processes, c)

-----------------------------------------------------------------------------
(* The keep flags mark_keep_processes leaves under another filter list. *)
KeptUnder(filters) ==
    Kept(mark_keep_processes(filters, g_processes, Root(g_processes),
                             NullNs, 1).ps)

(* The types a filter can name: the listed ones and those of the input. *)
ConcreteTypes ==
    Types \cup UNION {{g_processes[i].namespaces[k].type :
                           k \in 1..Len(g_processes[i].namespaces)} :
                       i \in 1..Len(g_processes)}

(* C5: the records kept under the filter list {"*"} include the records    *)
(* kept under {t}, for every namespace type t.                             *)
C5_WildcardSuperset ==
    (pc = "marked" /\ g_filters = <<"*">>) =>
        \A t \in ConcreteTypes : KeptUnder(<<t>>) \subseteq Kept(g_processes)

(* A wildcard run that keeps a record some type filter prunes, while that  *)
(* type filter keeps another record.                                       *)
C5_Witness ==
    /\ pc = "marked" /\ g_filters = <<"*">>
    /\ \E t \in Types :
          /\ KeptUnder(<<t>>) # {}
          /\ KeptUnder(<<t>>) # Kept(g_processes)
          /\ Root(g_processes) \in KeptUnder(<<t>>)
          /\ \E n \in Kept(g_processes) :
                /\ n \notin KeptUnder(<<t>>)
                /\ FilterDiffers(t, g_processes[n], NullNs)

-----------------------------------------------------------------------------
(* C9: build_process_tree gives every record as children exactly the       *)
(* records whose ppid is its pid, each once and in input order, and leaves *)
(* pid, ppid, isThread and the namespace list of every record alone.       *)
C9_GraphBuilding ==
    [][(pc = "gathered" /\ pc' = "built") =>
          /\ Len(g_processes') = Len(g_processes)
          /\ \A i \in 1..Len(g_processes) :
                LET ch == g_processes'[i].children
                IN  /\ {ch[k] : k \in 1..Len(ch)} = Kids(g_processes, i)
                    /\ \A k \in 1..Len(ch) - 1 : ch[k] < ch[k + 1]
                    /\ g_processes'[i].pid = g_processes[i].pid
                    /\ g_processes'[i].ppid = g_processes[i].ppid
                    /\ g_processes'[i].isThread = g_processes[i].isThread
                    /\ g_processes'[i].namespaces = g_processes[i].namespaces
      ]_vars

(* A built record with two children whose pids descend in input order, and *)
(* a record without children.                                              *)
C9_Witness ==
    /\ pc = "built"
    /\ \E i \in 1..Len(g_processes) :
          /\ Len(g_processes[i].children) = 2
          /\ g_processes[g_processes[i].children[1]].pid
                > g_processes[g_processes[i].children[2]].pid
    /\ \E i \in 1..Len(g_processes) : g_processes[i].children = <<>>

-----------------------------------------------------------------------------
(* C10: with no filter, every record of the tree rooted at pid 1 has keep  *)
(* set and print_tree emits exactly one line for each of them, and no      *)
(* other line.                                                             *)
C10_NoFilterIdentity ==
    (pc = "printed" /\ g_filters = <<>>) =>
        /\ \A n \in Reach(g_processes) :
              /\ g_processes[n].keep
              /\ Cardinality({k \in 1..Len(out) : out[k].proc = n}) = 1
        /\ Len(out) = Cardinality(Reach(g_processes))

(* An unfiltered run that prints three records with namespaces, all of    *)
(* which some type filter would prune.                                     *)
C10_Witness ==
    /\ pc = "printed" /\ g_filters = <<>>
    /\ Cardinality(Reach(g_processes)) = 3
    /\ Len(out) = 3
    /\ \A n \in Reach(g_processes) : g_processes[n].namespaces # <<>>
    /\ \E t \in Types : KeptUnder(<<t>>) = {}

-----------------------------------------------------------------------------
(* The line printed for pid 1 is the first line of the output. *)
RootLine == out[1]

(* C8: with no parent set (the root), the printed diff is the full list of *)
(* the node's namespace identifiers in storage order; an empty list prints *)
(* no bracket.                                                             *)
C8_RootDiffAll ==
    (pc = "printed" /\ Len(out) > 0) =>
        LET ns == g_processes[Root(g_processes)].namespaces
        IN  /\ RootLine.proc = Root(g_processes)
            /\ RootLine.diff = [i \in 1..Len(ns) |-> ns[i].inode]

(* A printed root with the same type twice, under different identifiers,   *)
(* and a printed root with no namespace at all.                            *)
C8_Witness ==
    /\ pc = "printed" /\ Len(out) > 0
    /\ LET ns == g_processes[Root(g_processes)].namespaces
       IN  /\ Len(ns) = 2
           /\ ns[1].type = ns[2].type
           /\ ns[1].inode # ns[2].inode
           /\ Len(RootLine.diff) = 2

-----------------------------------------------------------------------------
(* C3: for a node that is not the root and a concrete filter type t, the   *)
(* node is relevant for t exactly when the diff print_tree renders for it  *)
(* holds the identifier of an entry of type t.  The second record is a     *)
(* leaf under pid 1, so its keep flag is its relevance.                    *)
C3_ConcreteFilterRelevance ==
    (Marked /\ Len(g_filters) = 1 /\ g_filters[1] \in Types
        /\ Len(g_processes) = 2 /\ g_processes[2].ppid = 1) =>
        (g_processes[2].keep <=>
            \E i \in DiffIndices(g_processes[2].namespaces,
                                 NsPtr(g_processes[1].namespaces)) :
                g_processes[2].namespaces[i].type = g_filters[1])

-----------------------------------------------------------------------------
(* C4: a node whose namespace list equals its parent's list is printed     *)
(* with an empty diff, so without a bracket.                               *)
C4_DiffIdentity ==
    (pc = "printed") =>
        \A k \in 1..Len(out) :
            LET n == out[k].proc
            IN  (n # Root(g_processes)
                    /\ \A j \in Parents(g_processes, n) :
                          g_processes[j].namespaces = g_processes[n].namespaces)
                => out[k].diff = <<>>

-----------------------------------------------------------------------------
(* The documented example: pid 1 {net:A, mnt:B}, pid 2 under it with       *)
(* {net:A, mnt:C}, pid 3 under pid 2 with {net:D, mnt:C}.                  *)
Pids(ps) == [i \in 1..Len(ps) |-> ps[i].pid]

ScenarioWithout3 ==
    /\ pc = "printed"
    /\ Pids(g_processes) = <<1, 2>>
    /\ g_filters = <<"net">>

ScenarioNoFilter ==
    /\ pc = "printed"
    /\ Pids(g_processes) = <<1, 2, 3>>
    /\ g_filters = <<>>

OutLine(k) == [pid |-> out[k].pid, prefix |-> out[k].prefix, diff |-> out[k].diff]

(* C6 as stated: without pid 3 and under the filter {net}, pid 1 and pid 2 *)
(* both end with keep unset and nothing is printed.                        *)
C6_PrunedToNothing ==
    ScenarioWithout3 =>
        /\ ~g_processes[1].keep
        /\ ~g_processes[2].keep
        /\ out = <<>>

(* C6 as the code has it: without pid 3 and under the filter {net}, pid 2  *)
(* ends with keep unset, pid 1 ends with keep set (it has a net entry and  *)
(* no parent) and the one line printed is pid 1 with [net:A, mnt:B].       *)
C6_RootStaysRelevant ==
    ScenarioWithout3 =>
        /\ g_processes[1].keep
        /\ ~g_processes[2].keep
        /\ Len(out) = 1
        /\ OutLine(1) = [pid |-> 1, prefix |-> <<>>,
                         diff |-> <<<<"net", "A">>, <<"mnt", "B">>>>]

C6_Witness ==
    /\ ScenarioWithout3
    /\ Len(g_processes[1].children) = 1
    /\ ~has_requested_namespace_diff(g_filters, g_processes[2],
                                     NsPtr(g_processes[1].namespaces))
    /\ Len(out) = 1

(* C7 as stated: with no filter the three lines are pid 1 with no          *)
(* bracketed list, pid 2 under it with [mnt:C], pid 3 under pid 2 with     *)
(* [net:D].                                                                *)
C7_NoFilterScenario ==
    ScenarioNoFilter =>
        /\ Len(out) = 3
        /\ OutLine(1) = [pid |-> 1, prefix |-> <<>>, diff |-> <<>>]
        /\ OutLine(2) = [pid |-> 2, prefix |-> Blanks,
                         diff |-> <<<<"mnt", "C">>>>]
        /\ OutLine(3) = [pid |-> 3, prefix |-> Blanks \o Blanks,
                         diff |-> <<<<"net", "D">>>>]

(* C7 as the code has it: pid 1 is printed with its full list              *)
(* [net:A, mnt:B], pid 2 under it with [mnt:C], pid 3 under pid 2 with     *)
(* [net:D].                                                                *)
C7_NoFilterScenarioRootList ==
    ScenarioNoFilter =>
        /\ Len(out) = 3
        /\ OutLine(1) = [pid |-> 1, prefix |-> <<>>,
                         diff |-> <<<<"net", "A">>, <<"mnt", "B">>>>]
        /\ OutLine(2) = [pid |-> 2, prefix |-> Blanks,
                         diff |-> <<<<"mnt", "C">>>>]
        /\ OutLine(3) = [pid |-> 3, prefix |-> Blanks \o Blanks,
                         diff |-> <<<<"net", "D">>>>]

C7_Witness ==
    /\ ScenarioNoFilter
    /\ Len(out) = 3
    /\ \A k \in 1..3 : out[k].glyph = "last" /\ out[k].proc = k

-----------------------------------------------------------------------------
KeptIdx(ps, n) == {i \in 1..Len(ps[n].children) : ps[ps[n].children[i]].keep}

(* What C11 says of line j of the output lines: its record is kept, and    *)
(* under the line of its parent it has the terminal glyph if it is the     *)
(* kept child of highest index, else the continuation glyph, and its       *)
(* prefix is the prefix of the parent's line extended by two blanks if the *)
(* parent was printed as last, else by a continuation bar and a blank.     *)
GlyphAndPrefix(ps, lines, j) ==
    /\ ps[lines[j].proc].keep
    /\ \A k \in 1..Len(lines) :
           \A i \in 1..Len(ps[lines[k].proc].children) :
               ps[lines[k].proc].children[i] = lines[j].proc =>
                   /\ lines[j].glyph =
                          IF i = Max(KeptIdx(ps, lines[k].proc))
                          THEN "last" ELSE "mid"
                   /\ lines[j].prefix =
                          lines[k].prefix \o
                              (IF lines[k].glyph = "last" THEN Blanks ELSE Bar)

(* What C11 says of the finished output: every kept child of a printed     *)
(* node has one line, so one child of the node has the terminal glyph.     *)
KeptChildrenPrinted(ps, lines) ==
    \A k \in 1..Len(lines) :
        \A i \in KeptIdx(ps, lines[k].proc) :
            Cardinality({j \in 1..Len(lines) :
                            lines[j].proc = ps[lines[k].proc].children[i]}) = 1

(* C11: every line a step prints has the glyph and the prefix its place    *)
(* among the kept children of its parent asks for (terminal glyph for the  *)
(* kept child of highest index, continuation glyph for the other kept      *)
(* children, the parent's prefix extended by blanks under a last parent    *)
(* and by a continuation bar otherwise), no child that is not kept is      *)
(* printed or counted, and when print_tree has returned every kept child   *)
(* of a printed node has been printed once.                                *)
C11_BranchGlyphs ==
    [][/\ \A j \in (Len(out) + 1)..Len(out') :
              GlyphAndPrefix(g_processes, out', j)
       /\ pc # "printed" /\ pc' = "printed" =>
              KeptChildrenPrinted(g_processes, out')]_vars

-----------------------------------------------------------------------------
RECURSIVE MarkCalls(_, _, _)
RECURSIVE MarkCallsOfChildren(_, _, _, _)

(* The records mark_keep_processes is called for, in the order of the      *)
(* calls: proc, then for each child in turn the calls made for the child.  *)
(* It is read in states the marking has returned in, where no chain of     *)
(* calls is longer than the array.                                         *)
MarkCalls(ps, p, depth) ==
    IF depth > Len(ps)
    THEN <<>>
    ELSE <<p>> \o MarkCallsOfChildren(ps, p, 1, depth)

MarkCallsOfChildren(ps, p, i, depth) ==
    IF i > Len(ps[p].children)
    THEN <<>>
    ELSE MarkCalls(ps, ps[p].children[i], depth + 1)
             \o MarkCallsOfChildren(ps, p, i + 1, depth)

NoRepeat(seq) == \A j, k \in 1..Len(seq) : seq[j] = seq[k] => j = k

(* C12: whatever the parent links of the records (a record that is its own *)
(* parent, a cycle below pid 1, two records of one pid), the marking and   *)
(* the printing from pid 1 return, mark_keep_processes is called for no    *)
(* record twice and no record is printed twice.                            *)
C12_TerminatesVisitsOnce ==
    /\ pc # "crashed"
    /\ pc \in {"marked", "printed"} =>
           NoRepeat(MarkCalls(g_processes, Root(g_processes), 1))
    /\ pc = "printed" =>
           NoRepeat([k \in 1..Len(out) |-> out[k].proc])

====
